---------------------------- MODULE Spec2Model ----------------------------
(***************************************************************************)
(* State-machine model of src/game.js: the per-frame simulation loop       *)
(* (animate -> stepGame -> updateTimer, handleInput, handleAI,             *)
(* handleGoalCheck, updateBoostPads, handleBoostPickups, world.step) and   *)
(* the UI handlers togglePause and restartMatch.                           *)
(*                                                                         *)
(* Numbers.  The program computes in floating point; the model uses exact  *)
(* integers in fixed units:                                                *)
(*   time      ticks of 1/TicksPerSecond second                            *)
(*   length    1/LengthUnit metre                                          *)
(*   speed     1/SpeedUnit metre per second                                *)
(*   angle     milliradians (PI is 3142)                                   *)
(*   boost     the program's 0..100 scale                                  *)
(* The physics engine (world.step) is external to the program: the model   *)
(* lets it move the three bodies to any of a small set of sample places.   *)
(***************************************************************************)
EXTENDS Integers, Sequences, FiniteSets, TLC

\* ------------------------------------------------------------------ units

\* Time resolution of the model: animate turns the millisecond timestamp
\* difference into seconds; the model counts half seconds.
TicksPerSecond == 2

\* Length resolution of the model: 6 units per metre, so that 2.5 m and
\* PITCH_WIDTH / 3 are whole numbers.
LengthUnit == 6

\* Speed resolution of the model: 10 units per metre per second, so that
\* 0.9 * JUMP_VELOCITY is a whole number.
SpeedUnit == 10

\* ------------------------------------------------- constants of the program

PITCH_LENGTH == 80
PITCH_WIDTH == 50
GOAL_WIDTH == 20
BALL_RADIUS == 2

BOOST_DRAIN_RATE == 40
BOOST_REGEN_RATE == 20
PLAYER_MAX_SPEED == 40
PLAYER_ACCEL == 60
PLAYER_BOOST_ACCEL == 140
\* 2.0 rad/s, in milliradians per second
PLAYER_TURN_SPEED == 2000

JUMP_VELOCITY == 22
\* 2.5 m, in length units
GROUND_EPSILON == (5 * LengthUnit) \div 2

AI_MAX_SPEED == 32
AI_ACCEL == 50
\* 1.6 rad/s, in milliradians per second
AI_TURN_SPEED == 1600

\* seconds
RESET_DELAY == 2
\* seconds
MATCH_DURATION == 180

\* 2.5 m, in length units
BOOST_PAD_RADIUS == (5 * LengthUnit) \div 2
\* seconds
BOOST_PAD_COOLDOWN == 5

\* Math.PI in milliradians
PI == 3142

\* mass of the player and of the AI body
CAR_MASS == 40

\* ------------------------------------------------------------------ bounds

\* The model follows the first MaxFrames animation frames of a session.
MaxFrames == 4

\* The frame times the model draws from, in ticks: no time elapsed (the very
\* first callback), half a second, a second, and a tab that was in the
\* background for 179.5 s.
DtSet == {0, 1, 2, MATCH_DURATION * TicksPerSecond - 1}

\* The keyboard states the model samples at the start of a frame.
KeySnapshots ==
    { {},
      {"KeyW", "ShiftLeft"},
      {"KeyA", "Space"},
      {"KeyR"} }

\* ---------------------------------------------------------------- helpers

Vec(a, b, c) == [x |-> a, y |-> b, z |-> c]

ZeroVec == Vec(0, 0, 0)

Abs(n) == IF n < 0 THEN -n ELSE n

Max(a, b) == IF a >= b THEN a ELSE b

Min(a, b) == IF a <= b THEN a ELSE b

\* clamp(value, min, max)
clamp(value, lo, hi) == Max(lo, Min(hi, value))

\* rate (per second) times dt (ticks)
PerSecond(rate, d) == (rate * d) \div TicksPerSecond

\* seconds as ticks
Seconds(s) == s * TicksPerSecond

\* metres as length units
Metres(m) == m * LengthUnit

\* metres per second as speed units
MetresPerSecond(v) == v * SpeedUnit

\* mutant of isOnGround: < in place of <=
isOnGround_strict(body) == body.position.y < GROUND_EPSILON

\* isOnGround(body)
isOnGround(body) == body.position.y <= GROUND_EPSILON

\* ------------------------------------------------------------------ layout

\* createBoostPads: the four pad positions (x, z), in length units
PadPositions ==
    << [x |-> -(Metres(PITCH_LENGTH) \div 4), z |-> -(Metres(PITCH_WIDTH) \div 3)],
       [x |-> -(Metres(PITCH_LENGTH) \div 4), z |->   Metres(PITCH_WIDTH) \div 3 ],
       [x |->   Metres(PITCH_LENGTH) \div 4,  z |-> -(Metres(PITCH_WIDTH) \div 3)],
       [x |->   Metres(PITCH_LENGTH) \div 4,  z |->   Metres(PITCH_WIDTH) \div 3 ] >>

NumPads == Len(PadPositions)

\* resetBall: position (0, BALL_RADIUS + 0.5, 0), velocity 0
BallKickoff ==
    [position |-> Vec(0, Metres(BALL_RADIUS) + LengthUnit \div 2, 0),
     velocity |-> ZeroVec]

\* resetPlayerPosition: position (-PITCH_LENGTH/2 + 12, 3, 0), velocity 0
PlayerKickoffPosition == Vec(-(Metres(PITCH_LENGTH) \div 2) + Metres(12), Metres(3), 0)

\* resetAIPosition: position (PITCH_LENGTH/2 - 12, 3, 0), velocity 0
AIKickoffPosition == Vec(Metres(PITCH_LENGTH) \div 2 - Metres(12), Metres(3), 0)

\* resetBoostPads / createBoostPads: every pad active with cooldown 0
PadsReady == [i \in 1..NumPads |-> [active |-> TRUE, cooldown |-> 0]]


\* ------------------------------------------------------------------- state

VARIABLES
    pc,             \* the step of stepGame about to run, or "idle" between frames
    dt,             \* the frame time of the frame in progress, in ticks (0 between frames)
    keys,           \* the key codes held during the frame in progress ({} between frames)
    frameCount,     \* the animation frames so far
    sinceGoal,      \* history: the frame time of the frames since the goal whose
                    \* reset window is running, the goal's own frame included,
                    \* in ticks (0 when none is running)
    sincePickup,    \* history: per pad, the frame time of the frames stepGame ran
                    \* since the pad was last picked up, in ticks (0 for a pad
                    \* that was ready when the latest frame began)
    playerHeading,  \* milliradians
    aiHeading,      \* milliradians
    playerScore,
    aiScore,
    playerBoost,
    isResetting,
    resetTimer,     \* ticks
    remainingTime,  \* ticks
    isPaused,
    isMatchOver,
    boostPads,      \* pad index -> [active, cooldown (ticks)]
    ballBody,       \* [position, velocity]
    playerBody,     \* [position, velocity, force]
    aiBody          \* [position, velocity, force]

vars ==
    << pc, dt, keys, frameCount, sinceGoal, sincePickup, playerHeading, aiHeading, playerScore, aiScore,
       playerBoost, isResetting, resetTimer, remainingTime, isPaused, isMatchOver,
       boostPads, ballBody, playerBody, aiBody >>

\* the match state the frame steps and the handlers work on
matchVars ==
    << playerHeading, aiHeading, playerScore, aiScore, playerBoost, isResetting,
       resetTimer, remainingTime, isMatchOver, boostPads, ballBody, playerBody,
       aiBody >>

\* the frame's own locals
frameVars == << dt, keys >>

\* The module-level initialisers and init(): createBall, createPlayer,
\* createAI and createBoostPads leave every body at its kickoff place.
Init ==
    /\ pc = "idle"
    /\ dt = 0
    /\ keys = {}
    /\ frameCount = 0
    /\ sinceGoal = 0
    /\ sincePickup = [i \in 1..NumPads |-> 0]
    /\ playerHeading = 0
    /\ aiHeading = PI
    /\ playerScore = 0
    /\ aiScore = 0
    /\ playerBoost = 100
    /\ isResetting = FALSE
    /\ resetTimer = 0
    /\ remainingTime = Seconds(MATCH_DURATION)
    /\ isPaused = FALSE
    /\ isMatchOver = FALSE
    /\ boostPads = PadsReady
    /\ ballBody = BallKickoff
    /\ playerBody = [position |-> PlayerKickoffPosition, velocity |-> ZeroVec, force |-> 0]
    /\ aiBody = [position |-> AIKickoffPosition, velocity |-> ZeroVec, force |-> 0]

\* ------------------------------------------------------------ frame: entry

\* mutant of stepGameRuns: stepGame without its pause check
stepGameRuns_ignoresPause == TRUE

\* stepGame's first line: a paused frame runs nothing.
stepGameRuns == ~isPaused

\* animate(time) up to the call of stepGame, and stepGame's pause check: the
\* frame time is computed, the keyboard state is whatever the key events
\* since the last frame left, and stepGame is entered only when dt > 0.
enterFrame(dts, keySets) ==
    /\ pc = "idle"
    /\ \E d \in dts, k \in keySets :
          IF d > 0 /\ stepGameRuns
          THEN /\ dt' = d
               /\ keys' = k
               /\ pc' = "updateTimer"
               /\ sinceGoal' = IF isResetting THEN sinceGoal + d ELSE 0
               /\ sincePickup' = [i \in 1..NumPads |->
                                    IF boostPads[i].active THEN 0 ELSE sincePickup[i] + d]
          ELSE UNCHANGED << pc, dt, keys, sinceGoal, sincePickup >>
    /\ UNCHANGED << matchVars, isPaused >>

\* animate(time), one of the first MaxFrames animation frames
animate(dts, keySets) ==
    /\ frameCount < MaxFrames
    /\ frameCount' = frameCount + 1
    /\ enterFrame(dts, keySets)

\* animate(time), the frames not counted: requestAnimationFrame goes on for
\* as long as the page is open
animateForever(dts, keySets) ==
    /\ UNCHANGED frameCount
    /\ enterFrame(dts, keySets)

\* ------------------------------------------------------------ updateTimer

\* mutant of remainingAfter: the clamp at 0 is missing
remainingAfter_noClamp(t, d) == t - d

\* mutant of remainingAfter: a fixed step per frame instead of dt
remainingAfter_fixedStep(t, d) == IF t - 1 <= 0 THEN 0 ELSE t - 1

\* mutant of remainingAfter: the -= dt is missing
remainingAfter_noCountdown(t, d) == IF t <= 0 THEN 0 ELSE t

\* remainingTime after remainingTime -= dt and the clamp at 0
remainingAfter(t, d) == IF t - d <= 0 THEN 0 ELSE t - d

\* mutant of timerStopped: the clock is also held during a goal reset
timerStopped_duringReset == isMatchOver \/ isResetting

\* updateTimer's first line: if (isMatchOver) return
timerStopped == isMatchOver

\* updateTimer(dt)
updateTimer ==
    /\ pc = "updateTimer"
    /\ IF timerStopped
       THEN UNCHANGED << remainingTime, isMatchOver >>
       ELSE /\ remainingTime' = remainingAfter(remainingTime, dt)
            /\ isMatchOver' = (remainingTime - dt <= 0)
    /\ pc' = "handleInput"
    /\ UNCHANGED << frameVars, frameCount, sinceGoal, sincePickup, playerHeading, aiHeading, playerScore, aiScore,
                    playerBoost, isResetting, resetTimer, isPaused, boostPads,
                    ballBody, playerBody, aiBody >>

\* ------------------------------------------------------------ handleInput

\* resetTimer += dt, as handleInput and handleGoalCheck both do while resetting
resetTimerAdvanced(timer, d) == timer + d

\* mutant of resetDelayOver: > in place of >=
resetDelayOver_strict(timer) == timer > Seconds(RESET_DELAY)

\* mutant of resetDelayOver: the window is taken to be over at once
resetDelayOver_atOnce(timer) == TRUE

\* resetTimer >= RESET_DELAY
resetDelayOver(timer) == timer >= Seconds(RESET_DELAY)

\* velocity.x *= 1 - k * dt, with k given in tenths per second
Damped(v, k10, d) ==
    (v * (10 * TicksPerSecond - k10 * d)) \div (10 * TicksPerSecond)

\* targetAccel before boost: +PLAYER_ACCEL on KeyW, -0.7 PLAYER_ACCEL on KeyS
throttleAccel(k) ==
    (IF "KeyW" \in k THEN PLAYER_ACCEL ELSE 0)
    - (IF "KeyS" \in k THEN (PLAYER_ACCEL * 7) \div 10 ELSE 0)

\* keys["ShiftLeft"] || keys["ShiftRight"]
boostKeyHeld(k) == "ShiftLeft" \in k \/ "ShiftRight" \in k

\* mutant of isBoostingNow: the targetAccel > 0 test is missing
isBoostingNow_ignoresThrottle(k, boost) == boostKeyHeld(k) /\ boost > 0

\* isBoosting: a boost key held, playerBoost > 0 and targetAccel > 0
isBoostingNow(k, boost) ==
    boostKeyHeld(k) /\ boost > 0 /\ throttleAccel(k) > 0

\* mutant of boostAfterInput: the clamps are missing
boostAfterInput_noClamp(k, boost, d) ==
    IF isBoostingNow(k, boost)
    THEN boost - PerSecond(BOOST_DRAIN_RATE, d)
    ELSE boost + PerSecond(BOOST_REGEN_RATE, d)

\* playerBoost after the drain / regeneration lines of handleInput
boostAfterInput(k, boost, d) ==
    IF isBoostingNow(k, boost)
    THEN clamp(boost - PerSecond(BOOST_DRAIN_RATE, d), 0, 100)
    ELSE clamp(clamp(boost, 0, 100) + PerSecond(BOOST_REGEN_RATE, d), 0, 100)

\* playerHeading after the steering lines
headingAfterSteering(k, heading, d) ==
    heading
    + (IF "KeyA" \in k THEN PerSecond(PLAYER_TURN_SPEED, d) ELSE 0)
    - (IF "KeyD" \in k THEN PerSecond(PLAYER_TURN_SPEED, d) ELSE 0)

\* horizontal speed squared: vel.y = 0; vel.length()
speedSq(body) ==
    body.velocity.x * body.velocity.x + body.velocity.z * body.velocity.z

\* the player body after the drive force, damping and jump lines
playerBodyAfterInput(k, boost, body, d) ==
    LET boosting    == isBoostingNow(k, boost)
        targetAccel == throttleAccel(k) + (IF boosting THEN PLAYER_BOOST_ACCEL ELSE 0)
        maxSpeed    == IF boosting
                       THEN (MetresPerSecond(PLAYER_MAX_SPEED) * 16) \div 10
                       ELSE MetresPerSecond(PLAYER_MAX_SPEED)
        driven      == /\ targetAccel # 0
                       /\ (speedSq(body) < maxSpeed * maxSpeed \/ targetAccel < 0)
        force1      == IF driven THEN body.force + targetAccel * CAR_MASS ELSE body.force
        coasting    == "KeyW" \notin k /\ "KeyS" \notin k
        vx1         == IF coasting THEN Damped(body.velocity.x, 18, d) ELSE body.velocity.x
        vz1         == IF coasting THEN Damped(body.velocity.z, 18, d) ELSE body.velocity.z
        vy1         == IF "Space" \in k /\ isOnGround(body)
                       THEN MetresPerSecond(JUMP_VELOCITY) ELSE body.velocity.y
    IN  [position |-> body.position, velocity |-> Vec(vx1, vy1, vz1), force |-> force1]

\* handleInput(dt)
handleInput ==
    /\ pc = "handleInput"
    /\ LET timer1     == IF isResetting THEN resetTimerAdvanced(resetTimer, dt) ELSE resetTimer
           resetting1 == isResetting /\ ~resetDelayOver(timer1)
       IN  /\ ballBody' = IF "KeyR" \in keys THEN BallKickoff ELSE ballBody
           /\ resetTimer' = timer1
           /\ isResetting' = resetting1
           /\ sinceGoal' = IF resetting1 THEN sinceGoal ELSE 0
           /\ IF resetting1
              THEN UNCHANGED << playerHeading, playerBoost, playerBody >>
              ELSE /\ playerHeading' = headingAfterSteering(keys, playerHeading, dt)
                   /\ playerBoost' = boostAfterInput(keys, playerBoost, dt)
                   /\ playerBody' = playerBodyAfterInput(keys, playerBoost, playerBody, dt)
    /\ pc' = "handleAI"
    /\ UNCHANGED << frameVars, frameCount, sincePickup, aiHeading, playerScore, aiScore,
                    remainingTime, isPaused, isMatchOver, boostPads, aiBody >>

\* --------------------------------------------------------------- handleAI

\* JavaScript's a % b for b > 0: the remainder takes the sign of a
JsRemainder(a, b) == IF a >= 0 THEN a % b ELSE -((-a) % b)

\* atan(a / b) for 0 <= a <= b, b > 0, in milliradians (to within 4 mrad)
AtanRatio(a, b) == (785 * a) \div b + (273 * a * (b - a)) \div (b * b)

\* Math.atan2(z, x) in milliradians, in (-PI, PI]
Atan2(z, x) ==
    LET az   == Abs(z)
        ax   == Abs(x)
        base == IF az = 0 /\ ax = 0 THEN 0
                ELSE IF az <= ax THEN AtanRatio(az, ax)
                ELSE PI \div 2 - AtanRatio(ax, az)
        up   == IF x >= 0 THEN base ELSE PI - base
    IN  IF z >= 0 THEN up ELSE -up

\* diff = ((diff + Math.PI) % (2 * Math.PI)) - Math.PI
wrapDiff(diff) == JsRemainder(diff + PI, 2 * PI) - PI

\* mutant of aiHeadingAfterTurn: the clamp to maxTurn is missing
aiHeadingAfterTurn_noClamp(heading, desiredHeading, d) ==
    heading + wrapDiff(desiredHeading - heading)

\* aiHeading after the turn-rate-limited steering of handleAI
aiHeadingAfterTurn(heading, desiredHeading, d) ==
    LET maxTurn == PerSecond(AI_TURN_SPEED, d)
    IN  heading + clamp(wrapDiff(desiredHeading - heading), -maxTurn, maxTurn)

\* squared planar distance between two positions
planarDistSq(p, q) == (p.x - q.x) * (p.x - q.x) + (p.z - q.z) * (p.z - q.z)

\* distance comparisons of handleAI, on squares: dist > m metres
fartherThan(distSq, m) == distSq > Metres(m) * Metres(m)

\* the AI body after the drive force, jump and idle damping lines;
\* jumps is the outcome of Math.random() < 0.4 * dt
aiBodyAfterAI(body, ball, d, jumps) ==
    LET distSq       == planarDistSq(ball.position, body.position)
        ballOnAiSide == ball.position.x > 0
        accel        == IF ~ballOnAiSide
                        THEN (IF fartherThan(distSq, 15) THEN AI_ACCEL ELSE (AI_ACCEL * 4) \div 10)
                        ELSE AI_ACCEL
        maxSpeed     == MetresPerSecond(AI_MAX_SPEED)
        force1       == IF speedSq(body) < maxSpeed * maxSpeed
                        THEN body.force + accel * CAR_MASS ELSE body.force
        vy1          == IF distSq < Metres(7) * Metres(7) /\ isOnGround(body) /\ jumps
                        THEN (MetresPerSecond(JUMP_VELOCITY) * 9) \div 10
                        ELSE body.velocity.y
        idle         == fartherThan(distSq, 30)
        vx1          == IF idle THEN Damped(body.velocity.x, 15, d) ELSE body.velocity.x
        vz1          == IF idle THEN Damped(body.velocity.z, 15, d) ELSE body.velocity.z
    IN  [position |-> body.position, velocity |-> Vec(vx1, vy1, vz1), force |-> force1]

\* the outcomes Math.random() < 0.4 * dt can have: Math.random() is in [0, 1)
randomJumpOutcomes(d) ==
    { b \in BOOLEAN : (b => 4 * d > 0) /\ (~b => 4 * d < 10 * TicksPerSecond) }

\* handleAI(dt)
handleAI ==
    /\ pc = "handleAI"
    /\ LET desiredHeading == Atan2(ballBody.position.z - aiBody.position.z,
                                   ballBody.position.x - aiBody.position.x)
       IN  aiHeading' = aiHeadingAfterTurn(aiHeading, desiredHeading, dt)
    /\ \E jumps \in randomJumpOutcomes(dt) :
          aiBody' = aiBodyAfterAI(aiBody, ballBody, dt, jumps)
    /\ pc' = "handleGoalCheck"
    /\ UNCHANGED << frameVars, frameCount, sinceGoal, sincePickup, playerHeading, playerScore, aiScore, playerBoost,
                    isResetting, resetTimer, remainingTime, isPaused, isMatchOver,
                    boostPads, ballBody, playerBody >>

\* -------------------------------------------------------- handleGoalCheck

\* goalXPlayer = -PITCH_LENGTH / 2 - 1
goalXPlayer == -(Metres(PITCH_LENGTH) \div 2) - Metres(1)

\* goalXAI = PITCH_LENGTH / 2 + 1
goalXAI == Metres(PITCH_LENGTH) \div 2 + Metres(1)

\* withinWidth = Math.abs(z) < GOAL_WIDTH / 2
withinWidth(z) == Abs(z) < Metres(GOAL_WIDTH) \div 2

\* mutant of goalCheckArmed: the !isResetting guard is missing
goalCheckArmed_ignoresReset(resetting, ball) == withinWidth(ball.position.z)

\* the guard of the scoring block: !isResetting && withinWidth
goalCheckArmed(resetting, ball) == ~resetting /\ withinWidth(ball.position.z)

\* mutant of goalFor: the goal lines themselves count as beyond
goalFor_inclusiveLines(resetting, ball) ==
    IF ~goalCheckArmed(resetting, ball) THEN "none"
    ELSE IF ball.position.x <= goalXPlayer THEN "ai"
    ELSE IF ball.position.x >= goalXAI THEN "player"
    ELSE "none"

\* which side the scoring block credits: "ai" when the ball is beyond the
\* player's goal line, else "player" when beyond the AI's, else "none"
goalFor(resetting, ball) ==
    IF ~goalCheckArmed(resetting, ball) THEN "none"
    ELSE IF ball.position.x < goalXPlayer THEN "ai"
    ELSE IF ball.position.x > goalXAI THEN "player"
    ELSE "none"

\* mutant of bodyAtKickoff: the velocity.set(0, 0, 0) line is missing
bodyAtKickoff_keepsVelocity(body, place) ==
    [position |-> place, velocity |-> body.velocity, force |-> body.force]

\* resetPlayerPosition / resetAIPosition on a body: position and velocity
\* are set, the force accumulated this frame is not touched
bodyAtKickoff(body, place) ==
    [position |-> place, velocity |-> ZeroVec, force |-> body.force]

\* handleGoalCheck(dt), its scoring block with onGoalScored
handleGoalCheck ==
    /\ pc = "handleGoalCheck"
    /\ LET side == goalFor(isResetting, ballBody)
           goal == side # "none"
       IN  /\ aiScore' = IF side = "ai" THEN aiScore + 1 ELSE aiScore
           /\ playerScore' = IF side = "player" THEN playerScore + 1 ELSE playerScore
           /\ IF goal
              THEN \* onGoalScored: isResetting = true; resetTimer = 0; resetBall,
                   \* resetPlayerPosition, resetAIPosition, resetBoostPads
                   /\ isResetting' = TRUE
                   /\ resetTimer' = 0
                   /\ sinceGoal' = dt
                   /\ ballBody' = BallKickoff
                   /\ playerHeading' = 0
                   /\ playerBody' = bodyAtKickoff(playerBody, PlayerKickoffPosition)
                   /\ aiHeading' = PI
                   /\ aiBody' = bodyAtKickoff(aiBody, AIKickoffPosition)
                   /\ boostPads' = PadsReady
              ELSE UNCHANGED << isResetting, resetTimer, sinceGoal, ballBody,
                                playerHeading, playerBody, aiHeading, aiBody, boostPads >>
    /\ pc' = "handleGoalCheckTimer"
    /\ UNCHANGED << frameVars, frameCount, sincePickup, playerBoost, remainingTime,
                    isPaused, isMatchOver >>

\* handleGoalCheck(dt), its trailing block, which always follows the scoring
\* block: if (isResetting) { resetTimer += dt; if (resetTimer >= RESET_DELAY) ... }
handleGoalCheckTimer ==
    /\ pc = "handleGoalCheckTimer"
    /\ LET timer1     == IF isResetting THEN resetTimerAdvanced(resetTimer, dt) ELSE resetTimer
           resetting1 == isResetting /\ ~resetDelayOver(timer1)
       IN  /\ resetTimer' = timer1
           /\ isResetting' = resetting1
           /\ sinceGoal' = IF resetting1 THEN sinceGoal ELSE 0
    /\ pc' = "updateBoostPads"
    /\ UNCHANGED << frameVars, frameCount, sincePickup, playerHeading, aiHeading,
                    playerScore, aiScore, playerBoost, remainingTime, isPaused,
                    isMatchOver, boostPads, ballBody, playerBody, aiBody >>

\* ------------------------------------------------------------- boost pads

\* mutant of padAfterCooldown: the cooldown is not pinned to 0 on reactivation
padAfterCooldown_noPin(pad, d) ==
    IF pad.active THEN pad
    ELSE [active |-> pad.cooldown - d <= 0, cooldown |-> pad.cooldown - d]

\* mutant of padAfterCooldown: the cooldown loses one tick per frame, not dt
padAfterCooldown_fixedStep(pad, d) ==
    IF pad.active THEN pad
    ELSE IF pad.cooldown - 1 <= 0
         THEN [active |-> TRUE, cooldown |-> 0]
         ELSE [active |-> FALSE, cooldown |-> pad.cooldown - 1]

\* updateBoostPads(dt), one pad
padAfterCooldown(pad, d) ==
    IF pad.active THEN pad
    ELSE IF pad.cooldown - d <= 0
         THEN [active |-> TRUE, cooldown |-> 0]
         ELSE [active |-> FALSE, cooldown |-> pad.cooldown - d]

\* mutant of updateBoostPads: stepGame goes on to the physics step without
\* calling handleBoostPickups
updateBoostPads_skipsPickups ==
    /\ pc = "updateBoostPads"
    /\ boostPads' = [i \in 1..NumPads |-> padAfterCooldown(boostPads[i], dt)]
    /\ pc' = "worldStep"
    /\ UNCHANGED << frameVars, frameCount, sinceGoal, sincePickup, playerHeading, aiHeading,
                    playerScore, aiScore, playerBoost, isResetting, resetTimer,
                    remainingTime, isPaused, isMatchOver, ballBody, playerBody, aiBody >>

\* updateBoostPads(dt)
updateBoostPads ==
    /\ pc = "updateBoostPads"
    /\ boostPads' = [i \in 1..NumPads |-> padAfterCooldown(boostPads[i], dt)]
    /\ pc' = "handleBoostPickups"
    /\ UNCHANGED << frameVars, frameCount, sinceGoal, sincePickup, playerHeading, aiHeading, playerScore, aiScore,
                    playerBoost, isResetting, resetTimer, remainingTime, isPaused,
                    isMatchOver, ballBody, playerBody, aiBody >>

\* distSq <= BOOST_PAD_RADIUS * BOOST_PAD_RADIUS for pad i
playerOnPad(i, body) ==
    planarDistSq(body.position, PadPositions[i]) <= BOOST_PAD_RADIUS * BOOST_PAD_RADIUS

\* mutant of picksUp: the if (!pad.active) return line is missing
picksUp_ignoresActive(i, pads, body) == playerOnPad(i, body)

\* pad i is picked up by handleBoostPickups: active and the player within reach
picksUp(i, pads, body) == pads[i].active /\ playerOnPad(i, body)

\* handleBoostPickups()
handleBoostPickups ==
    /\ pc = "handleBoostPickups"
    /\ boostPads' =
          [i \in 1..NumPads |->
              IF picksUp(i, boostPads, playerBody)
              THEN [active |-> FALSE, cooldown |-> Seconds(BOOST_PAD_COOLDOWN)]
              ELSE boostPads[i]]
    /\ playerBoost' =
          IF \E i \in 1..NumPads : picksUp(i, boostPads, playerBody)
          THEN 100 ELSE playerBoost
    /\ sincePickup' =
          [i \in 1..NumPads |->
              IF picksUp(i, boostPads, playerBody) THEN 0 ELSE sincePickup[i]]
    /\ pc' = "worldStep"
    /\ UNCHANGED << frameVars, frameCount, sinceGoal, playerHeading, aiHeading, playerScore, aiScore,
                    isResetting, resetTimer, remainingTime, isPaused, isMatchOver,
                    ballBody, playerBody, aiBody >>

\* ------------------------------------------------------------- world.step

\* Places the physics step may leave the ball, as [position, velocity]
BallAtCentre ==
    [position |-> Vec(0, Metres(BALL_RADIUS), 0), velocity |-> ZeroVec]

BallInPlayerGoal ==
    [position |-> Vec(goalXPlayer - Metres(1), Metres(BALL_RADIUS), 0),
     velocity |-> Vec(-MetresPerSecond(10), 0, 0)]

BallOnPlayerGoalLine ==
    [position |-> Vec(goalXPlayer, Metres(BALL_RADIUS), 0),
     velocity |-> Vec(-MetresPerSecond(10), 0, 0)]

BallInAIGoal ==
    [position |-> Vec(goalXAI + Metres(1), Metres(BALL_RADIUS), Metres(3)),
     velocity |-> Vec(MetresPerSecond(10), 0, 0)]

BallBeyondAILineAtPost ==
    [position |-> Vec(goalXAI + Metres(1), Metres(BALL_RADIUS), Metres(GOAL_WIDTH) \div 2),
     velocity |-> Vec(MetresPerSecond(10), 0, 0)]

\* Places the physics step may leave the player's car
PlayerSettled ==
    [position |-> Vec(PlayerKickoffPosition.x, Metres(1), 0), velocity |-> ZeroVec]

PlayerOnPad1 ==
    [position |-> Vec(PadPositions[1].x, Metres(1), PadPositions[1].z),
     velocity |-> Vec(MetresPerSecond(20), 0, 0)]

PlayerOnRimOfPad1 ==
    [position |-> Vec(PadPositions[1].x + BOOST_PAD_RADIUS, Metres(1), PadPositions[1].z),
     velocity |-> Vec(MetresPerSecond(PLAYER_MAX_SPEED), 0, 0)]

PlayerInAirBeyondPad1 ==
    [position |-> Vec(PadPositions[1].x + BOOST_PAD_RADIUS + 1, Metres(4), PadPositions[1].z),
     velocity |-> Vec(0, -MetresPerSecond(10), MetresPerSecond(20))]

\* exactly GROUND_EPSILON above the ground plane, rising
PlayerAtGroundEpsilon ==
    [position |-> Vec(PlayerKickoffPosition.x, GROUND_EPSILON, 0),
     velocity |-> Vec(0, MetresPerSecond(5), 0)]

\* one length unit above GROUND_EPSILON, rising
PlayerJustAboveGroundEpsilon ==
    [position |-> Vec(PlayerKickoffPosition.x, GROUND_EPSILON + 1, 0),
     velocity |-> Vec(0, MetresPerSecond(5), 0)]

\* Places the physics step may leave the AI's car
AISettled ==
    [position |-> Vec(AIKickoffPosition.x, Metres(1), 0), velocity |-> ZeroVec]

AINearCentre ==
    [position |-> Vec(Metres(3), Metres(1), Metres(3)),
     velocity |-> Vec(-MetresPerSecond(20), 0, 0)]

Scene(b, p, a) == [ball |-> b, player |-> p, ai |-> a]

\* The outcomes of the physics step the model draws from
PhysicsScenes ==
    { Scene(BallAtCentre, PlayerSettled, AISettled),
      Scene(BallAtCentre, PlayerOnPad1, AISettled),
      Scene(BallInPlayerGoal, PlayerOnPad1, AINearCentre),
      Scene(BallOnPlayerGoalLine, PlayerOnRimOfPad1, AISettled),
      Scene(BallInAIGoal, PlayerInAirBeyondPad1, AINearCentre),
      Scene(BallBeyondAILineAtPost, PlayerSettled, AISettled) }

\* world.step(1 / 60, dt, 3), then syncVisuals and updateCamera (which
\* change no simulation state): the engine integrates the bodies and clears
\* the forces applied during the frame.  The frame ends here.
worldStep(scenes) ==
    /\ pc = "worldStep"
    /\ \E s \in scenes :
          /\ ballBody' = s.ball
          /\ playerBody' = [position |-> s.player.position,
                            velocity |-> s.player.velocity, force |-> 0]
          /\ aiBody' = [position |-> s.ai.position,
                        velocity |-> s.ai.velocity, force |-> 0]
    /\ pc' = "idle"
    /\ dt' = 0
    /\ keys' = {}
    /\ UNCHANGED << frameCount, sinceGoal, sincePickup, playerHeading, aiHeading, playerScore, aiScore, playerBoost,
                    isResetting, resetTimer, remainingTime, isPaused, isMatchOver,
                    boostPads >>

\* ------------------------------------------------------------ UI handlers

\* togglePause(): the pause button, the resume button, KeyP and Escape; an
\* event handler runs between frames
togglePause ==
    /\ pc = "idle"
    /\ isPaused' = ~isPaused
    /\ UNCHANGED << pc, frameVars, frameCount, sinceGoal, sincePickup, matchVars >>

\* mutant of restartMatch: the boost pads and the pause flag are left alone
restartMatch_keepsPadsAndPause ==
    /\ pc = "idle"
    /\ playerScore' = 0
    /\ aiScore' = 0
    /\ remainingTime' = Seconds(MATCH_DURATION)
    /\ isMatchOver' = FALSE
    /\ playerBoost' = 100
    /\ ballBody' = BallKickoff
    /\ playerHeading' = 0
    /\ playerBody' = bodyAtKickoff(playerBody, PlayerKickoffPosition)
    /\ aiHeading' = PI
    /\ aiBody' = bodyAtKickoff(aiBody, AIKickoffPosition)
    /\ UNCHANGED << pc, frameVars, frameCount, sinceGoal, sincePickup, isResetting,
                    resetTimer, boostPads, isPaused >>

\* restartMatch(): the restart button
restartMatch ==
    /\ pc = "idle"
    /\ playerScore' = 0
    /\ aiScore' = 0
    /\ remainingTime' = Seconds(MATCH_DURATION)
    /\ isMatchOver' = FALSE
    /\ playerBoost' = 100
    /\ ballBody' = BallKickoff
    /\ playerHeading' = 0
    /\ playerBody' = bodyAtKickoff(playerBody, PlayerKickoffPosition)
    /\ aiHeading' = PI
    /\ aiBody' = bodyAtKickoff(aiBody, AIKickoffPosition)
    /\ boostPads' = PadsReady
    /\ isPaused' = FALSE
    /\ UNCHANGED << pc, frameVars, frameCount, sinceGoal, sincePickup, isResetting,
                    resetTimer >>

\* ----------------------------------------------------------- specification

Next ==
    \/ animate(DtSet, KeySnapshots)
    \/ updateTimer
    \/ handleInput
    \/ handleAI
    \/ handleGoalCheck
    \/ handleGoalCheckTimer
    \/ updateBoostPads
    \/ handleBoostPickups
    \/ worldStep(PhysicsScenes)
    \/ togglePause
    \/ restartMatch

Spec == Init /\ [][Next]_vars

\* ------------------------------------------- specification: pad recharging

\* Frame times of 2.0 s, 2.5 s and 3.0 s, in ticks: two or three such frames
\* sum to less than, exactly and more than BOOST_PAD_COOLDOWN.
PadDtSet == {Seconds(2), Seconds(2) + 1, Seconds(3)}

\* The keyboard states sampled in the pad runs: nothing held, boosting.
PadKeySnapshots == { {}, {"KeyW", "ShiftLeft"} }

\* The outcomes of the physics step drawn from in the pad runs: the player
\* off the pads, on pad 1, on its rim, just beyond its rim, and a goal.
PadScenes ==
    { Scene(BallAtCentre, PlayerSettled, AISettled),
      Scene(BallAtCentre, PlayerOnPad1, AISettled),
      Scene(BallAtCentre, PlayerOnRimOfPad1, AISettled),
      Scene(BallAtCentre, PlayerInAirBeyondPad1, AISettled),
      Scene(BallInPlayerGoal, PlayerOnPad1, AINearCentre) }

NextPads ==
    \/ animate(PadDtSet, PadKeySnapshots)
    \/ updateTimer
    \/ handleInput
    \/ handleAI
    \/ handleGoalCheck
    \/ handleGoalCheckTimer
    \/ updateBoostPads
    \/ handleBoostPickups
    \/ worldStep(PadScenes)
    \/ togglePause
    \/ restartMatch

\* The program run with frames of 2 to 3 seconds.
SpecPads == Init /\ [][NextPads]_vars

\* ------------------------------------------- specification: the match clock

\* Frame times of 0.5 s and of 179 s, in ticks: after one long frame the
\* match has a second left to run.
ClockDtSet == {1, Seconds(MATCH_DURATION) - 2}

\* The outcomes of the physics step drawn from in the clock runs: the ball
\* in midfield or in the player's goal, the cars at rest.
ClockScenes ==
    { Scene(BallAtCentre, PlayerSettled, AISettled),
      Scene(BallInPlayerGoal, PlayerSettled, AISettled) }

NextClock ==
    \/ animate(ClockDtSet, {{}})
    \/ updateTimer
    \/ handleInput
    \/ handleAI
    \/ handleGoalCheck
    \/ handleGoalCheckTimer
    \/ updateBoostPads
    \/ handleBoostPickups
    \/ worldStep(ClockScenes)
    \/ togglePause
    \/ restartMatch

\* The program run with no key held and goals against the player near the
\* end of the match.
SpecClock == Init /\ [][NextClock]_vars

\* ----------------------------------- specification: frames without end

\* The runs without a bound on the number of frames follow the match up to
\* MaxGoals goals.
MaxGoals == 2

\* Frame times of 0.5 s, 1 s and 60 s, in ticks.
LiveDtSet == {1, 2, Seconds(60)}

\* The outcomes of the physics step drawn from in these runs: the ball in
\* midfield or, until MaxGoals goals have been given, in the player's goal.
LiveScenes ==
    IF playerScore + aiScore < MaxGoals
    THEN { Scene(BallAtCentre, PlayerSettled, AISettled),
           Scene(BallInPlayerGoal, PlayerSettled, AISettled) }
    ELSE { Scene(BallAtCentre, PlayerSettled, AISettled) }

\* a frame begins: animate calls stepGame, which is not paused
FrameRuns == animateForever(LiveDtSet, {{}}) /\ pc' = "updateTimer"

\* the calls stepGame makes, one after the other
FrameSteps ==
    \/ updateTimer
    \/ handleInput
    \/ handleAI
    \/ handleGoalCheck
    \/ handleGoalCheckTimer
    \/ updateBoostPads
    \/ handleBoostPickups
    \/ worldStep(LiveScenes)

NextLive ==
    \/ animateForever(LiveDtSet, {{}})
    \/ FrameSteps
    \/ togglePause
    \/ restartMatch

\* The program run for as long as the page is open.  The browser keeps
\* calling animate (requestAnimationFrame, line 163), so a frame begins
\* whenever the game stays unpaused; stepGame runs to completion, nothing
\* in it blocks.  The pause and restart buttons may be pressed at any time
\* between frames, or never.
SpecLive ==
    /\ Init
    /\ [][NextLive]_vars
    /\ WF_vars(FrameRuns)
    /\ WF_vars(FrameSteps)

\* ---------------------------------------------- specification: AI steering

\* A place the physics step may leave the ball: on the wing of the player's
\* half, at positive z
BallOnLeftWing ==
    [position |-> Vec(-Metres(20), Metres(BALL_RADIUS), Metres(15)),
     velocity |-> ZeroVec]

\* The headings handleAI is entered with in the steering runs, in (-PI, PI]:
\* the kickoff heading PI and five others round the circle.
AIHeadings == {-3000, -(PI \div 2), 0, PI \div 2, 3000, PI}

\* The frame times of the steering runs: every frame time stepGame runs with.
AIDtSet == DtSet \ {0}

\* The ball and AI places of the steering runs.
AIBallPlaces ==
    { BallKickoff, BallAtCentre, BallInPlayerGoal, BallInAIGoal,
      BallBeyondAILineAtPost, BallOnLeftWing }

AIPlaces == { AISettled, AINearCentre }

\* stepGame about to call handleAI(dt), in a frame of a match without goals:
\* the heading, the frame time and the places of ball and AI are drawn from
\* the sets above.
InitAI ==
    /\ pc = "handleAI"
    /\ dt \in AIDtSet
    /\ keys = {}
    /\ frameCount = 1
    /\ sinceGoal = 0
    /\ sincePickup = [i \in 1..NumPads |-> 0]
    /\ playerHeading = 0
    /\ aiHeading \in AIHeadings
    /\ playerScore = 0
    /\ aiScore = 0
    /\ playerBoost = 100
    /\ isResetting = FALSE
    /\ resetTimer = 0
    /\ remainingTime = remainingAfter(Seconds(MATCH_DURATION), dt)
    /\ isPaused = FALSE
    /\ isMatchOver = FALSE
    /\ boostPads = PadsReady
    /\ ballBody \in AIBallPlaces
    /\ playerBody = [position |-> PlayerKickoffPosition, velocity |-> ZeroVec, force |-> 0]
    /\ \E a \in AIPlaces :
          aiBody = [position |-> a.position, velocity |-> a.velocity, force |-> 0]

NextAI == handleAI

\* handleAI applied once to each combination of heading, frame time and places.
SpecAI == InitAI /\ [][NextAI]_vars

\* ------------------------------------------- specification: player control

\* The keyboard states of the control runs: every combination of throttle,
\* brake and boost keys that matters, steering with jump, and the debug key.
InputKeySnapshots ==
    { {}, {"KeyW"}, {"ShiftLeft"}, {"KeyW", "ShiftLeft"}, {"KeyW", "ShiftRight"},
      {"KeyS", "ShiftLeft"}, {"KeyW", "KeyS", "ShiftLeft"},
      {"KeyA", "Space"}, {"KeyD", "KeyW", "ShiftLeft", "Space"}, {"KeyR"} }

\* The frame times of the control runs: every frame time stepGame runs with.
InputDtSet == DtSet \ {0}

\* The readings of the boost meter handleInput is entered with.
InputBoosts == {0, 10, 50, 90, 100}

\* The values of resetTimer handleInput is entered with while a reset window
\* is running: the frame time of the goal's frame, below RESET_DELAY.
InputResetTimers == 1..(Seconds(RESET_DELAY) - 1)

\* The places of the player's car in the control runs: on the ground at
\* rest, on the ground at PLAYER_MAX_SPEED, in the air, and at and just
\* above the height GROUND_EPSILON.
InputPlayerPlaces ==
    { PlayerSettled, PlayerOnRimOfPad1, PlayerInAirBeyondPad1,
      PlayerAtGroundEpsilon, PlayerJustAboveGroundEpsilon }

\* stepGame about to call handleInput(dt), in the first frame after the goal
\* of a reset window or in a frame outside any window: keys, frame time,
\* boost, heading, accumulator and the car's place are drawn from the sets
\* above.
InitInput ==
    /\ pc = "handleInput"
    /\ dt \in InputDtSet
    /\ keys \in InputKeySnapshots
    /\ frameCount = 2
    /\ isResetting \in BOOLEAN
    /\ resetTimer \in (IF isResetting THEN InputResetTimers ELSE {0})
    /\ sinceGoal = (IF isResetting THEN resetTimer + dt ELSE 0)
    /\ sincePickup = [i \in 1..NumPads |-> 0]
    /\ playerHeading \in {0, 3000}
    /\ aiHeading = PI
    /\ playerScore = 0
    /\ aiScore = (IF isResetting THEN 1 ELSE 0)
    /\ playerBoost \in InputBoosts
    /\ remainingTime = remainingAfter(Seconds(MATCH_DURATION) - 1, dt)
    /\ isPaused = FALSE
    /\ isMatchOver = (remainingTime = 0)
    /\ boostPads = PadsReady
    /\ ballBody = BallAtCentre
    /\ \E p \in InputPlayerPlaces :
          playerBody = [position |-> p.position, velocity |-> p.velocity, force |-> 0]
    /\ aiBody = [position |-> AISettled.position, velocity |-> ZeroVec, force |-> 0]

NextInput == handleInput

\* handleInput applied once to each combination of its inputs.
SpecInput == InitInput /\ [][NextInput]_vars

\* ------------------------------------------------------------------ claims

\* a step of animate or of one of the frame's steps
FrameStep == pc # "idle" \/ pc' # "idle" \/ frameCount' # frameCount

\* a step of togglePause that is nothing more: the pause flag flips
PauseToggleStep == ~FrameStep /\ isPaused' = ~isPaused /\ UNCHANGED matchVars

\* a step of a UI handler between frames that is not a mere pause toggle:
\* a restart
RestartStep == ~FrameStep /\ ~PauseToggleStep

\* the ball is laterally inside the goal width and beyond the player's line
BallInPlayersGoal ==
    /\ Abs(ballBody.position.z) < Metres(GOAL_WIDTH) \div 2
    /\ ballBody.position.x < -(Metres(PITCH_LENGTH) \div 2 + Metres(1))

\* the ball is laterally inside the goal width and beyond the AI's line
BallInAIsGoal ==
    /\ Abs(ballBody.position.z) < Metres(GOAL_WIDTH) \div 2
    /\ ballBody.position.x > Metres(PITCH_LENGTH) \div 2 + Metres(1)

\* C1. Goal idempotence: no step taken while isResetting is true increments
\* playerScore or aiScore, wherever the ball is.
C1_GoalIdempotence ==
    [][isResetting => playerScore' <= playerScore /\ aiScore' <= aiScore]_vars

\* C1 witness: the scoring block has just run during a reset window with the
\* ball inside the player's goal, and the ball is still there (no goal was
\* given, or the ball would have been put back on the centre spot).
C1_Witness ==
    /\ pc = "handleGoalCheckTimer"
    /\ isResetting
    /\ resetTimer > 0
    /\ BallInPlayersGoal

\* C2 (as claimed). The reset window lasts RESET_DELAY: isResetting turns
\* false only once the frame time elapsed since the goal (counting even the
\* whole of the goal's own frame) has reached RESET_DELAY seconds.
C2_ResetWindowLastsResetDelay ==
    [][isResetting /\ ~isResetting' => sinceGoal >= Seconds(RESET_DELAY)]_vars

\* C3 (as claimed). FULL_TIME is terminal: once isMatchOver, the flag stays
\* set and neither score changes in any step until a restart.
C3_FullTimeIsTerminal ==
    [][isMatchOver /\ ~RestartStep =>
          isMatchOver' /\ playerScore' = playerScore /\ aiScore' = aiScore]_vars

\* C4. Countdown: before full time the timer step of a frame takes exactly
\* dt off remainingTime, clamps the result at 0 and sets the match-over flag
\* in that same step exactly when the result is <= 0; no later step of the
\* frame (goal check included) touches the timer or the flag.
C4_Countdown ==
    [][ /\ (pc = "updateTimer" /\ ~isMatchOver =>
              /\ remainingTime' = (IF remainingTime - dt <= 0 THEN 0 ELSE remainingTime - dt)
              /\ isMatchOver' = (remainingTime - dt <= 0))
        /\ (pc = "idle" /\ pc' # "idle" => pc' = "updateTimer" /\ dt' > 0)
        /\ (pc \notin {"idle", "updateTimer"} =>
              UNCHANGED << remainingTime, isMatchOver >>) ]_vars

\* C4 witness: the spec's scenario.  In the second frame (the first took
\* 179.5 s, leaving 0.5 s) a frame time of 1.0 s has just been taken off: the
\* timer is clamped to 0 and the match is over, with no goal scored.
C4_Witness ==
    /\ pc = "handleInput"
    /\ frameCount = 2
    /\ dt = Seconds(1)
    /\ remainingTime = 0
    /\ isMatchOver
    /\ playerScore = 0 /\ aiScore = 0

\* C5. Boost bound: 0 <= playerBoost <= 100 in every state.
C5_BoostBound == 0 <= playerBoost /\ playerBoost <= 100

\* C5 witness: boost and throttle were held through a 179.5 s frame, which
\* drains far more than the meter holds; the meter reads 0.
C5_Witness ==
    /\ pc = "handleAI"
    /\ dt > Seconds(10)
    /\ "ShiftLeft" \in keys /\ "KeyW" \in keys
    /\ playerBoost = 0

\* C6. Timer bound: 0 <= remainingTime <= MATCH_DURATION in every state.
C6_TimerBound == 0 <= remainingTime /\ remainingTime <= Seconds(MATCH_DURATION)

\* C6 witness: a 179.5 s frame after a goal had already been scored in an
\* earlier frame, so more time was taken off than was left.
C6_Witness ==
    /\ pc = "handleInput"
    /\ dt > Seconds(10)
    /\ aiScore + playerScore > 0
    /\ remainingTime = 0

\* C7. Pause invariance: while isPaused no frame step runs, and every step
\* other than a restart, the two pause toggles included, leaves scores,
\* timer, boost, headings, pads, reset flag and accumulator and the three
\* bodies unchanged.
C7_PauseInvariance ==
    [][ /\ (isPaused /\ ~RestartStep =>
              pc = "idle" /\ pc' = "idle" /\ UNCHANGED matchVars)
        /\ (isPaused' # isPaused /\ ~RestartStep => UNCHANGED matchVars) ]_vars

\* C7 witness: paused in the middle of a reset window, after a goal, with
\* part of the boost used.
C7_Witness ==
    /\ isPaused
    /\ pc = "idle"
    /\ isResetting
    /\ aiScore = 1
    /\ playerBoost < 100
    /\ remainingTime < Seconds(MATCH_DURATION)

\* C8. Restart: a restart step leaves both scores 0, the timer at
\* MATCH_DURATION, the boost at 100, the match-over and pause flags clear,
\* ball, player and AI at the kickoff layout and every pad active with
\* cooldown 0.
C8_RestartResets ==
    [][RestartStep =>
          /\ playerScore' = 0 /\ aiScore' = 0
          /\ remainingTime' = Seconds(MATCH_DURATION)
          /\ playerBoost' = 100
          /\ ~isMatchOver' /\ ~isPaused'
          /\ ballBody' = BallKickoff
          /\ playerBody'.position = PlayerKickoffPosition
          /\ playerBody'.velocity = ZeroVec
          /\ playerHeading' = 0
          /\ aiBody'.position = AIKickoffPosition
          /\ aiBody'.velocity = ZeroVec
          /\ aiHeading' = PI
          /\ \A i \in 1..NumPads : boostPads'[i].active /\ boostPads'[i].cooldown = 0 ]_vars

\* C8 witness: three frames in, between frames, everything is at its
\* kickoff value although the stale accumulator shows that a 179.5 s frame
\* ended a reset window: the match was restarted after full time.
C8_Witness ==
    /\ pc = "idle"
    /\ frameCount >= 3
    /\ resetTimer > Seconds(10)
    /\ ballBody = BallKickoff
    /\ playerBody.position = PlayerKickoffPosition
    /\ remainingTime = Seconds(MATCH_DURATION)
    /\ playerScore = 0 /\ aiScore = 0

\* C9 (as claimed). After a restart no goal-reset freeze is in progress.
C9_RestartEndsGoalReset == [][RestartStep => ~isResetting']_vars

PlayerStandsOnPad(i) ==
    (playerBody.position.x - PadPositions[i].x) * (playerBody.position.x - PadPositions[i].x)
    + (playerBody.position.z - PadPositions[i].z) * (playerBody.position.z - PadPositions[i].z)
    <= BOOST_PAD_RADIUS * BOOST_PAD_RADIUS

\* a step in which a goal is given (the scoring block with onGoalScored)
GoalStep == playerScore' + aiScore' > playerScore + aiScore

\* C11. Pickup exclusivity: while a pad is inactive, the pickup step leaves
\* it as it is even with the player standing on it and gives no refill
\* (unless another, active pad is in reach); its state changes only by the
\* cooldown step taking dt off (reactivating it exactly when the cooldown
\* has run down to 0 or below) or by a goal reset or restart making it
\* ready again.
C11_PickupExclusivity ==
    [][\A i \in 1..NumPads : ~boostPads[i].active =>
          /\ (pc = "handleBoostPickups" =>
                /\ boostPads'[i] = boostPads[i]
                /\ ((\A j \in 1..NumPads : ~(boostPads[j].active /\ PlayerStandsOnPad(j)))
                       => playerBoost' = playerBoost))
          /\ (boostPads'[i] # boostPads[i] =>
                \/ /\ pc = "updateBoostPads"
                   /\ IF boostPads[i].cooldown - dt <= 0
                      THEN boostPads'[i] = [active |-> TRUE, cooldown |-> 0]
                      ELSE boostPads'[i] =
                              [active |-> FALSE, cooldown |-> boostPads[i].cooldown - dt]
                \/ /\ (GoalStep \/ RestartStep)
                   /\ boostPads'[i] = [active |-> TRUE, cooldown |-> 0]) ]_vars

\* C11 witness: the pickup step has just run with the player standing on
\* pad 1 while that pad was part-way through its cooldown; the boost meter
\* was not refilled.
C11_Witness ==
    /\ pc = "worldStep"
    /\ PlayerStandsOnPad(1)
    /\ ~boostPads[1].active
    /\ boostPads[1].cooldown < Seconds(BOOST_PAD_COOLDOWN)
    /\ playerBoost < 100

\* C12. Boost-pad invariant: in every state (frame boundaries, goal resets
\* and restarts included) every pad is active exactly when its cooldown is
\* 0, and 0 <= cooldown <= BOOST_PAD_COOLDOWN.
C12_PadInvariant ==
    \A i \in 1..NumPads :
        /\ boostPads[i].active <=> boostPads[i].cooldown = 0
        /\ 0 <= boostPads[i].cooldown
        /\ boostPads[i].cooldown <= Seconds(BOOST_PAD_COOLDOWN)

\* C12 witness: at a frame boundary, pad 1 is part-way through its
\* cooldown (inactive, cooldown strictly between 0 and BOOST_PAD_COOLDOWN)
\* while the other pads are ready.
C12_Witness ==
    /\ pc = "idle"
    /\ ~boostPads[1].active
    /\ 0 < boostPads[1].cooldown
    /\ boostPads[1].cooldown < Seconds(BOOST_PAD_COOLDOWN)
    /\ \A i \in 2..NumPads : boostPads[i].active /\ boostPads[i].cooldown = 0

MaxTurnThisFrame == (AI_TURN_SPEED * dt) \div TicksPerSecond

\* C14. AI turn-rate limit: the AI controller's step changes aiHeading by at
\* most AI_TURN_SPEED * dt in magnitude.
C14_AITurnRateLimit ==
    [][pc = "handleAI" =>
          /\ aiHeading' - aiHeading <= MaxTurnThisFrame
          /\ aiHeading - aiHeading' <= MaxTurnThisFrame]_vars

\* C14 witness: the AI controller has just run in a half-second frame with
\* the ball far off its heading, and the heading is exactly one full
\* AI_TURN_SPEED * dt away from the kickoff heading PI it entered with.
C14_Witness ==
    /\ pc = "handleGoalCheck"
    /\ dt = 1
    /\ aiHeading = PI - MaxTurnThisFrame
    /\ aiBody.position = AINearCentre.position
    /\ ballBody = BallInPlayerGoal

\* the angle w in (-PI, PI] that differs from a by a whole number of turns
ShortWay(a) == CHOOSE w \in (1 - PI)..PI : (a - w) % (2 * PI) = 0

\* the angle from the AI to the ball, in the ground plane
AngleToBall ==
    Atan2(ballBody.position.z - aiBody.position.z,
          ballBody.position.x - aiBody.position.x)

\* C15 (as claimed). AI steering wrap: the AI controller turns the shorter
\* way round towards the ball: the change of aiHeading is the difference
\* between the angle to the ball and aiHeading, wrapped into (-PI, PI], and
\* clamped to AI_TURN_SPEED * dt (when the ball is exactly behind, either
\* way round is as short).
C15_AISteeringWrap ==
    [][pc = "handleAI" =>
          LET w == ShortWay(AngleToBall - aiHeading)
              turn == IF w > MaxTurnThisFrame THEN MaxTurnThisFrame
                      ELSE IF w < -MaxTurnThisFrame THEN -MaxTurnThisFrame
                      ELSE w
          IN  \/ aiHeading' - aiHeading = turn
              \/ w = PI /\ aiHeading - aiHeading' = turn ]_vars

\* the goal-reset window is still running when the player controller
\* executes: isResetting, and the accumulator below RESET_DELAY after dt is
\* added
ControlSuppressed == isResetting /\ resetTimer + dt < Seconds(RESET_DELAY)

\* a boost key is held, the throttle is engaged and there is boost left
BoostConsumed ==
    /\ ("ShiftLeft" \in keys \/ "ShiftRight" \in keys)
    /\ "KeyW" \in keys
    /\ playerBoost > 0

\* C16. Boost drain / regeneration: when player control is not suppressed,
\* the player controller's step takes BOOST_DRAIN_RATE * dt off playerBoost,
\* floored at 0 and with no regeneration, exactly when a boost key is held,
\* the throttle is engaged and playerBoost > 0 on entry; otherwise it adds
\* BOOST_REGEN_RATE * dt, capped at 100.
C16_BoostDrainRegen ==
    [][pc = "handleInput" /\ ~ControlSuppressed =>
          LET drained == playerBoost - (BOOST_DRAIN_RATE * dt) \div TicksPerSecond
              regened == playerBoost + (BOOST_REGEN_RATE * dt) \div TicksPerSecond
          IN  IF BoostConsumed
              THEN playerBoost' = (IF drained < 0 THEN 0 ELSE drained)
              ELSE playerBoost' = (IF regened > 100 THEN 100 ELSE regened) ]_vars

\* C16 witness: the spec's scenario.  The player controller has just run in
\* a 1.0 s frame with boost and throttle held and the meter reads 0: it was
\* entered with 10 (with 0 it would have regenerated to 20), and 10 - 40 is
\* floored at 0.
C16_Witness ==
    /\ pc = "handleAI"
    /\ dt = Seconds(1)
    /\ keys = {"KeyW", "ShiftLeft"}
    /\ ~isResetting
    /\ playerBoost = 0

\* C20. Player control suppression: when the goal-reset window is still
\* running as the player controller executes, its step leaves playerHeading
\* and playerBoost unchanged and does nothing to the player body (no drive
\* force, no damping, no jump), whatever keys are held.
C20_ControlSuppressed ==
    [][pc = "handleInput" /\ ControlSuppressed =>
          /\ playerHeading' = playerHeading
          /\ playerBoost' = playerBoost
          /\ playerBody' = playerBody ]_vars

\* C20 witness: the player controller has just run during a reset window
\* with steering, throttle, boost and jump keys all held, the car on the
\* ground; the window is still running, the meter still reads 90 and no
\* force was applied.
C20_Witness ==
    /\ pc = "handleAI"
    /\ isResetting
    /\ resetTimer < Seconds(RESET_DELAY)
    /\ keys = {"KeyD", "KeyW", "ShiftLeft", "Space"}
    /\ playerBody.position = PlayerSettled.position
    /\ playerBody.force = 0
    /\ playerBoost = 90

\* the order of the steps of a frame: each step and the one that follows it
FrameOrder ==
    { << "idle", "updateTimer" >>,
      << "updateTimer", "handleInput" >>,
      << "handleInput", "handleAI" >>,
      << "handleAI", "handleGoalCheck" >>,
      << "handleGoalCheck", "handleGoalCheckTimer" >>,
      << "handleGoalCheckTimer", "updateBoostPads" >>,
      << "updateBoostPads", "handleBoostPickups" >>,
      << "handleBoostPickups", "worldStep" >>,
      << "worldStep", "idle" >> }

\* C17. Frame ordering: the steps of a frame run in the fixed order match
\* timer, player controller, AI controller, goal detection (scoring, then
\* its reset accumulator), pad cooldowns, pad pickups, physics step, and the
\* frame ends with the physics step; each step does its own work only, so
\* that between two physics steps the ball and the player's car are moved
\* only by being put back at kickoff, and the goal and pickup checks read
\* the places the previous frame's physics step left; a frame begun while
\* paused runs no step.
C17_FrameOrdering ==
    [][ /\ (pc' # pc => << pc, pc' >> \in FrameOrder)
        /\ (pc # "idle" => pc' # pc)
        /\ (pc = "idle" /\ isPaused => pc' = "idle")
        /\ (remainingTime' # remainingTime /\ ~RestartStep => pc = "updateTimer")
        /\ (playerScore' # playerScore \/ aiScore' # aiScore =>
              pc = "handleGoalCheck" \/ RestartStep)
        /\ (boostPads' # boostPads =>
              \/ pc \in {"updateBoostPads", "handleBoostPickups"}
              \/ GoalStep \/ RestartStep)
        /\ (ballBody' # ballBody => pc = "worldStep" \/ ballBody' = BallKickoff)
        /\ (playerBody'.position # playerBody.position =>
              pc = "worldStep" \/ playerBody'.position = PlayerKickoffPosition) ]_vars

\* C17 witness: the last step before the physics step of a frame, in which
\* the timer ran, the player drove and used boost, the AI drove and a pad
\* was picked up, all on the places the previous physics step left.
C17_Witness ==
    /\ pc = "worldStep"
    /\ remainingTime = Seconds(MATCH_DURATION) - 2 * dt
    /\ playerBody.force > 0
    /\ playerBoost = 100
    /\ aiBody.force > 0
    /\ PlayerStandsOnPad(1)
    /\ ~boostPads[1].active /\ boostPads[1].cooldown = Seconds(BOOST_PAD_COOLDOWN)

\* every pad is active with cooldown 0
AllPadsReady ==
    \A i \in 1..NumPads : boostPads[i].active /\ boostPads[i].cooldown = 0

C19_HeadingRange ==
    pc = "idle" =>
       /\ -PI < playerHeading /\ playerHeading <= PI
       /\ -PI < aiHeading /\ aiHeading <= PI

\* C21 (as claimed). AI control suppression: in a frame where isResetting
\* is true as the AI controller executes, its step leaves aiHeading
\* unchanged and applies no drive force and no jump to the AI body.
C21_AIControlSuppressed ==
    [][pc = "handleAI" /\ isResetting =>
          /\ aiHeading' = aiHeading
          /\ aiBody'.force = aiBody.force
          /\ aiBody'.velocity.y = aiBody.velocity.y ]_vars

\* C22. Jump gating: the player controller's step sets the player's
\* vertical velocity to JUMP_VELOCITY when the jump key is held, control is
\* not suppressed and the body is at or below GROUND_EPSILON, and leaves
\* the vertical velocity unchanged in every other case, a held jump key
\* above the threshold included.
C22_JumpGating ==
    [][pc = "handleInput" =>
          IF /\ "Space" \in keys
             /\ ~ControlSuppressed
             /\ 2 * playerBody.position.y <= 5 * LengthUnit
          THEN playerBody'.velocity.y = JUMP_VELOCITY * SpeedUnit
          ELSE playerBody'.velocity.y = playerBody.velocity.y ]_vars

\* C22 witness: the player controller has just run with the jump key held
\* and the car exactly GROUND_EPSILON up: it jumped.
C22_Witness ==
    /\ pc = "handleAI"
    /\ "Space" \in keys
    /\ 2 * playerBody.position.y = 5 * LengthUnit
    /\ playerBody.velocity.y = JUMP_VELOCITY * SpeedUnit

\* C23. The match clock is not stopped by a goal: every frame that runs
\* begins with the timer step, which before full time takes dt > 0 off
\* remainingTime (down to 0 at most) whether or not a goal reset is in
\* progress, and the step that gives a goal leaves the clock alone.
C23_ClockRunsThroughGoalReset ==
    [][ /\ (pc = "idle" /\ pc' # "idle" => pc' = "updateTimer" /\ dt' > 0)
        /\ (pc = "updateTimer" /\ ~isMatchOver =>
              /\ remainingTime' < remainingTime
              /\ remainingTime' = (IF remainingTime > dt THEN remainingTime - dt ELSE 0)
              /\ isResetting' = isResetting)
        /\ (GoalStep =>
              remainingTime' = remainingTime /\ isMatchOver' = isMatchOver) ]_vars

\* C23 witness: full time reached while a goal reset is in progress.  Three
\* frames in, at the frame boundary, the match is over and the reset window
\* of the goal given in the second frame (0.5 s, then 2 * 0.5 s added by the
\* third) is still running; the first frame took 179 s, so the second left
\* half a second on the clock and the third ran it out.
C23_Witness ==
    /\ pc = "idle"
    /\ frameCount = 3
    /\ isMatchOver /\ remainingTime = 0
    /\ isResetting /\ resetTimer = 3
    /\ aiScore = 1 /\ playerScore = 0

\* unpaused frames keep occurring
FramesKeepRunning == []<>(pc = "updateTimer")

\* C24. Every goal reset ends: if unpaused frames keep occurring, whenever
\* isResetting is true it later becomes false, with no other event needed;
\* and at every frame boundary isResetting implies that the accumulator is
\* below RESET_DELAY.
C24_ResetEnds ==
    /\ FramesKeepRunning => (isResetting ~> ~isResetting)
    /\ [](pc = "idle" /\ isResetting => resetTimer < Seconds(RESET_DELAY))

\* C24 witness: a reset window that stayed open past the goal's own frame
\* has just been ended by the player controller of a short frame, the
\* frame times added to the accumulator having reached exactly RESET_DELAY.
C24_Witness ==
    /\ pc = "handleAI"
    /\ dt < Seconds(RESET_DELAY)
    /\ ~isResetting
    /\ resetTimer = Seconds(RESET_DELAY)
    /\ aiScore >= 1

\* C25. The match terminates: if unpaused frames keep occurring and from
\* some point on restart is not invoked, then, whatever goals and resets
\* happen on the way, the match-over flag gets set (remainingTime having
\* reached 0) and stays set.
C25_MatchTerminates ==
    FramesKeepRunning /\ <>[][~RestartStep]_vars
       => <>[](isMatchOver /\ remainingTime = 0)

\* C25 witness: full time, at a frame boundary, in a match in which a goal
\* was given and its reset window ran out over short frames.
C25_Witness ==
    /\ pc = "idle"
    /\ isMatchOver /\ remainingTime = 0
    /\ aiScore >= 1
    /\ resetTimer = Seconds(RESET_DELAY)

=============================================================================
